---- MODULE Spec2Model ----
(***************************************************************************)
(* Data-retrieval layer of streamlit_app.py: _open_ds,                     *)
(* _standardize_anom_field, list_available_times and load_anomaly, with    *)
(* the xarray / pandas label selection they rely on.                       *)
(*                                                                         *)
(* A DataArray is a sequence of dimension axes (name, coordinate values,   *)
(* and the source positions the values come from) plus the scalar          *)
(* coordinates left behind by scalar selections.  Two DataArrays are the   *)
(* same field iff they have the same axes, coordinates and source cells.   *)
(***************************************************************************)
EXTENDS Integers, Sequences, FiniteSets, TLC

\* Bounds of the model.
MaxTime == 2
MaxAxis == 2

\* ---------------------------------------------------------------------
\* Sequence helpers
\* ---------------------------------------------------------------------
RECURSIVE SortedSeq(_)
SortedSeq(S) ==
    IF S = {} THEN <<>>
    ELSE LET m == CHOOSE x \in S : \A y \in S : x <= y
         IN  <<m>> \o SortedSeq(S \ {m})

Reverse(s) == [k \in 1..Len(s) |-> s[Len(s) + 1 - k]]

Range(s) == {s[k] : k \in 1..Len(s)}

SeqMin(s) == CHOOSE x \in Range(s) : \A y \in Range(s) : x <= y

SeqMax(s) == CHOOSE x \in Range(s) : \A y \in Range(s) : x >= y

Abs(x) == IF x < 0 THEN -x ELSE x

RemoveAt(s, k) == SubSeq(s, 1, k - 1) \o SubSeq(s, k + 1, Len(s))

\* Strictly ascending sequences of 1..MaxAxis values of S.
AscAxes(S) == {SortedSeq(T) : T \in {U \in SUBSET S : Cardinality(U) \in 1..MaxAxis}}

\* ---------------------------------------------------------------------
\* Results of calls: a value or a raised exception
\* ---------------------------------------------------------------------
NoField == [axes |-> <<>>, scalars |-> {}]

NoResult == [kind |-> "none", err |-> "", field |-> NoField, times |-> <<>>, url |-> <<>>]

Raise(e) == [NoResult EXCEPT !.kind = "error", !.err = e]

ReturnField(da) == [NoResult EXCEPT !.kind = "ok", !.field = da]

ReturnTimes(ts) == [NoResult EXCEPT !.kind = "ok", !.times = ts]

ReturnHandle(u) == [NoResult EXCEPT !.kind = "ok", !.url = u]

\* ---------------------------------------------------------------------
\* xarray DataArray operations used by the program
\* ---------------------------------------------------------------------
Axis(n, v) == [name |-> n, vals |-> v, pos |-> [k \in 1..Len(v) |-> k]]

DimNames(da) == [k \in 1..Len(da.axes) |-> da.axes[k].name]

HasDim(da, d) == \E k \in 1..Len(da.axes) : da.axes[k].name = d

HasCoord(da, c) == HasDim(da, c) \/ \E s \in da.scalars : s.name = c

DimIndex(da, d) == CHOOSE k \in 1..Len(da.axes) : da.axes[k].name = d

AxisOf(da, d) == da.axes[DimIndex(da, d)]

\* da.isel({d: p}): the axis becomes a scalar coordinate.
SelPosition(da, d, p) ==
    LET k  == DimIndex(da, d)
        ax == da.axes[k]
    IN  [axes    |-> RemoveAt(da.axes, k),
         scalars |-> da.scalars \cup {[name |-> d, val |-> ax.vals[p], pos |-> ax.pos[p]]}]

\* pandas Index.is_monotonic_increasing / is_monotonic_decreasing
IsIncreasing(v) == \A k \in 1..(Len(v) - 1) : v[k] <= v[k + 1]

IsDecreasing(v) == \A k \in 1..(Len(v) - 1) : v[k] >= v[k + 1]

\* pandas Index.slice_indexer(lo, hi) on a monotonic index: the 0-based
\* half-open position range [start, stop) of the label slice lo:hi.
\* On an increasing index start counts the labels below lo and stop the
\* labels up to hi; on a decreasing index the index is searched in its own
\* direction, so start counts the labels above lo and stop those down to hi.
slice_indexer(v, lo, hi) ==
    IF IsIncreasing(v)
    THEN [start |-> Cardinality({k \in 1..Len(v) : v[k] < lo}),
          stop  |-> Cardinality({k \in 1..Len(v) : v[k] <= hi})]
    ELSE [start |-> Cardinality({k \in 1..Len(v) : v[k] > lo}),
          stop  |-> Cardinality({k \in 1..Len(v) : v[k] >= hi})]

\* da.sel({d: slice(lo, hi)}); KeyError when d is not an indexed dimension.
SelSlice(da, d, lo, hi) ==
    IF ~HasDim(da, d) THEN Raise("KeyError")
    ELSE LET k  == DimIndex(da, d)
             ax == da.axes[k]
             ix == slice_indexer(ax.vals, lo, hi)
             nx == [ax EXCEPT !.vals = SubSeq(ax.vals, ix.start + 1, ix.stop),
                              !.pos  = SubSeq(ax.pos, ix.start + 1, ix.stop)]
         IN  ReturnField([da EXCEPT !.axes[k] = nx])

\* pandas Index.get_indexer([t], method="nearest") on an increasing index:
\* the nearer of the last label <= t and the first label >= t; on a tie the
\* later one.
NearestIndex(v, t) ==
    LET le == {k \in 1..Len(v) : v[k] <= t}
        ge == {k \in 1..Len(v) : v[k] >= t}
        l  == IF le = {} THEN 0 ELSE CHOOSE k \in le : \A j \in le : j <= k
        r  == IF ge = {} THEN 0 ELSE CHOOSE k \in ge : \A j \in ge : j >= k
    IN  IF r = 0 THEN l
        ELSE IF l = 0 THEN r
        ELSE IF Abs(t - v[l]) < Abs(v[r] - t) THEN l ELSE r

\* da.sel(time=t, method="nearest")
SelNearest(da, d, t) == SelPosition(da, d, NearestIndex(AxisOf(da, d).vals, t))

\* da.squeeze(drop=True): every length-one dimension is removed together
\* with its coordinate.
Squeeze(da) == [da EXCEPT !.axes = SelectSeq(da.axes, LAMBDA a : Len(a.vals) # 1)]

\* da.rename(m), m a function from old names to new names
Rename(da, m) ==
    LET nm(n) == IF n \in DOMAIN m THEN m[n] ELSE n
    IN  [axes    |-> [k \in 1..Len(da.axes) |-> [da.axes[k] EXCEPT !.name = nm(da.axes[k].name)]],
         scalars |-> {[s EXCEPT !.name = nm(s.name)] : s \in da.scalars}]

\* xr.concat([left, right], dim=d)
Concat(left, right, d) ==
    LET k  == DimIndex(left, d)
        la == left.axes[k]
        ra == AxisOf(right, d)
    IN  [left EXCEPT !.axes[k] = [la EXCEPT !.vals = la.vals \o ra.vals,
                                            !.pos  = la.pos \o ra.pos]]

\* ---------------------------------------------------------------------
\* The remote server: which URLs open, and the dataset they serve
\* ---------------------------------------------------------------------
ERDDAP_URL == <<"SST_OI_DAILY_1981_PRESENT_T">>

DepthNames == <<"zlev", "depth", "lev">>

\* Time axes: ascending, with gaps so that a date can fall between two times.
TimeVals == {2 * k : k \in 1..MaxTime}

TimeAxes == {SortedSeq(T) : T \in (SUBSET TimeVals) \ {{}}}

LatVals == {-60, 0, 60}

LatAxes == AscAxes(LatVals) \cup {Reverse(a) : a \in AscAxes(LatVals)}

\* Longitudes of a grid in the -180..180 convention and in the 0..360 one.
LonVals180 == {-170, 170}

LonVals360 == {10, 190}

LonAxes == AscAxes(LonVals180) \cup AscAxes(LonVals360)

DepthAxis == <<0, 10>>

\* Dimensions of the data variables of a dataset, in storage order.
GridAxes(times, depth, latName, lat, lonName, lon) ==
    <<Axis("time", times)>>
        \o (IF depth = "none" THEN <<>> ELSE <<Axis(depth, DepthAxis)>>)
        \o <<Axis(latName, lat), Axis(lonName, lon)>>

\* The two coordinate-naming conventions of the source.
CoordNames == {<<"lat", "lon">>, <<"latitude", "longitude">>}

WellFormedDatasets ==
    {[vars |-> {"anom"}, axes |-> GridAxes(t, d, nm[1], la, nm[2], lo)] :
        t \in TimeAxes, d \in {"none"} \cup Range(DepthNames),
        nm \in CoordNames, la \in LatAxes, lo \in LonAxes}

\* A dataset without the variable "anom", and one without a time coordinate.
MalformedDatasets ==
    {[vars |-> {"sst"}, axes |-> GridAxes(<<2, 4>>, "none", "lat", <<0, 60>>, "lon", <<-170, 170>>)],
     [vars |-> {"anom"}, axes |-> <<Axis("lat", <<0, 60>>), Axis("lon", <<-170, 170>>)>>]}

Datasets == WellFormedDatasets \cup MalformedDatasets

Servers == [up : SUBSET {ERDDAP_URL, ERDDAP_URL \o <<".nc">>}, ds : Datasets]

\* xr.open_dataset(url): a handle on the served dataset, or an error.
open_dataset(srv, url) ==
    IF url \in srv.up THEN ReturnHandle(url) ELSE Raise("OSError")

\* ds[name] for a data variable
DsVariable(ds, name) ==
    IF name \in ds.vars THEN ReturnField([axes |-> ds.axes, scalars |-> {}])
    ELSE Raise("KeyError")

DsHasTime(ds) == \E k \in 1..Len(ds.axes) : ds.axes[k].name = "time"

\* ds["time"].values
DsTimes(ds) == ds.axes[CHOOSE k \in 1..Len(ds.axes) : ds.axes[k].name = "time"].vals

\* ---------------------------------------------------------------------
\* _open_ds
\* ---------------------------------------------------------------------
\* _open_ds without the fallback attempt.
_open_ds_NoRetry(srv, url_base) ==
    [attempts |-> <<url_base>>, res |-> open_dataset(srv, url_base)]

\* The attempts made, in order, and the outcome of the last one.
_open_ds(srv, url_base) ==
    LET first == open_dataset(srv, url_base)
    IN  IF first.kind = "ok"
        THEN [attempts |-> <<url_base>>, res |-> first]
        ELSE [attempts |-> <<url_base, url_base \o <<".nc">>>>,
              res      |-> open_dataset(srv, url_base \o <<".nc">>)]

\* ---------------------------------------------------------------------
\* _standardize_anom_field
\* ---------------------------------------------------------------------
\* The first of zlev, depth, lev that is a dimension is fixed at its first
\* value.
RECURSIVE SurfaceSelect(_, _)
SurfaceSelect(da, names) ==
    IF names = <<>> THEN da
    ELSE IF HasDim(da, Head(names)) THEN SelPosition(da, Head(names), 1)
    ELSE SurfaceSelect(da, Tail(names))

\* ClampTime with the two boundaries exchanged.
ClampTime_Swapped(target_time, tmin, tmax) ==
    IF target_time < tmin THEN tmax
    ELSE IF target_time > tmax THEN tmin
    ELSE target_time

ClampTime(target_time, tmin, tmax) ==
    IF target_time < tmin THEN tmin
    ELSE IF target_time > tmax THEN tmax
    ELSE target_time

RenameCoords(da) ==
    LET olds == (IF HasCoord(da, "latitude") THEN {"latitude"} ELSE {})
                    \cup (IF HasCoord(da, "longitude") THEN {"longitude"} ELSE {})
        rename_map == [n \in olds |-> IF n = "latitude" THEN "lat" ELSE "lon"]
    IN  IF olds # {} THEN Rename(da, rename_map) ELSE da

_standardize_anom_field(ds, target_time) ==
    LET v == DsVariable(ds, "anom")
    IN  IF v.kind # "ok" THEN v
        ELSE IF ~DsHasTime(ds) THEN Raise("KeyError")
        ELSE LET da    == SurfaceSelect(v.field, DepthNames)
                 times == DsTimes(ds)
                 t     == ClampTime(target_time, SeqMin(times), SeqMax(times))
             IN  ReturnField(RenameCoords(Squeeze(SelNearest(da, "time", t))))

\* ---------------------------------------------------------------------
\* list_available_times
\* ---------------------------------------------------------------------
\* The result and the handles the call leaves open.
list_available_times(srv) ==
    LET o == _open_ds(srv, ERDDAP_URL)
    IN  IF o.res.kind # "ok"
        THEN [res |-> o.res, attempts |-> o.attempts, open |-> {}]
        ELSE IF ~DsHasTime(srv.ds)
        THEN [res |-> Raise("KeyError"), attempts |-> o.attempts, open |-> {o.res.url}]
        ELSE [res |-> ReturnTimes(DsTimes(srv.ds)), attempts |-> o.attempts, open |-> {}]

\* ---------------------------------------------------------------------
\* load_anomaly
\* ---------------------------------------------------------------------
NoBBox == [present |-> FALSE, lat_min |-> 0, lat_max |-> 0, lon_min |-> 0, lon_max |-> 0]

BBox(a, b, c, d) == [present |-> TRUE, lat_min |-> a, lat_max |-> b, lon_min |-> c, lon_max |-> d]

\* LatSelect that passes the bounds on in the order given.
LatSelect_NoSwap(da, lat_min, lat_max) == SelSlice(da, "lat", lat_min, lat_max)

LatSelect(da, lat_min, lat_max) ==
    IF lat_min <= lat_max
    THEN SelSlice(da, "lat", lat_min, lat_max)
    ELSE SelSlice(da, "lat", lat_max, lat_min)

\* LonSelect that concatenates the western segment before the eastern one.
LonSelect_WestFirst(da, lon_min, lon_max) ==
    IF lon_min <= lon_max
    THEN SelSlice(da, "lon", lon_min, lon_max)
    ELSE LET left  == SelSlice(da, "lon", lon_min, 180)
             right == SelSlice(da, "lon", -180, lon_max)
         IN  IF left.kind # "ok" THEN left
             ELSE IF right.kind # "ok" THEN right
             ELSE ReturnField(Concat(right.field, left.field, "lon"))

LonSelect(da, lon_min, lon_max) ==
    IF lon_min <= lon_max
    THEN SelSlice(da, "lon", lon_min, lon_max)
    ELSE LET left  == SelSlice(da, "lon", lon_min, 180)
             right == SelSlice(da, "lon", -180, lon_max)
         IN  IF left.kind # "ok" THEN left
             ELSE IF right.kind # "ok" THEN right
             ELSE ReturnField(Concat(left.field, right.field, "lon"))

BBoxSelect(da, bbox) ==
    IF ~bbox.present THEN ReturnField(da)
    ELSE LET byLat == LatSelect(da, bbox.lat_min, bbox.lat_max)
         IN  IF byLat.kind # "ok" THEN byLat
             ELSE LonSelect(byLat.field, bbox.lon_min, bbox.lon_max)

\* load_anomaly that recovers from a failed standardization with an empty
\* field.
load_anomaly_Recover(srv, date, bbox) ==
    LET o == _open_ds(srv, ERDDAP_URL)
    IN  IF o.res.kind # "ok"
        THEN [res |-> o.res, attempts |-> o.attempts, open |-> {}]
        ELSE LET std == _standardize_anom_field(srv.ds, date)
                 sel == IF std.kind = "ok" THEN BBoxSelect(std.field, bbox)
                        ELSE ReturnField(NoField)
             IN  [res |-> sel, attempts |-> o.attempts, open |-> {}]

\* The result and the handles the call leaves open: ds.close() is the last
\* statement before the return, so it runs only when nothing raised.
load_anomaly(srv, date, bbox) ==
    LET o == _open_ds(srv, ERDDAP_URL)
    IN  IF o.res.kind # "ok"
        THEN [res |-> o.res, attempts |-> o.attempts, open |-> {}]
        ELSE LET std == _standardize_anom_field(srv.ds, date)
                 sel == IF std.kind = "ok" THEN BBoxSelect(std.field, bbox) ELSE std
             IN  [res |-> sel, attempts |-> o.attempts,
                  open |-> IF sel.kind = "ok" THEN {} ELSE {o.res.url}]

\* ---------------------------------------------------------------------
\* The program as a state machine: one action per function call
\* ---------------------------------------------------------------------
VARIABLES server, op, date, bbox, result, attempts, open_handles

vars == <<server, op, date, bbox, result, attempts, open_handles>>

Dates == 1..(2 * MaxTime + 1)

LatBounds == {-30, 60}

LonBounds == {-160, 170}

BBoxes == {NoBBox} \cup {BBox(a, b, c, d) : a \in LatBounds, b \in LatBounds,
                                           c \in LonBounds, d \in LonBounds}

Init ==
    /\ server \in Servers
    /\ op = "none"
    /\ date = 1
    /\ bbox = NoBBox
    /\ result = NoResult
    /\ attempts = <<>>
    /\ open_handles = {}

CallOpenDs ==
    LET o == _open_ds(server, ERDDAP_URL)
    IN  /\ op = "none"
        /\ op' = "_open_ds"
        /\ date' = 1
        /\ bbox' = NoBBox
        /\ result' = o.res
        /\ attempts' = o.attempts
        /\ open_handles' = IF o.res.kind = "ok" THEN {o.res.url} ELSE {}
        /\ UNCHANGED server

CallStandardize ==
    \E t \in Dates :
        /\ op = "none"
        /\ op' = "_standardize_anom_field"
        /\ date' = t
        /\ bbox' = NoBBox
        /\ result' = _standardize_anom_field(server.ds, t)
        /\ attempts' = <<>>
        /\ open_handles' = {}
        /\ UNCHANGED server

CallListAvailableTimes ==
    LET c == list_available_times(server)
    IN  /\ op = "none"
        /\ op' = "list_available_times"
        /\ date' = 1
        /\ bbox' = NoBBox
        /\ result' = c.res
        /\ attempts' = c.attempts
        /\ open_handles' = c.open
        /\ UNCHANGED server

CallLoadAnomaly ==
    \E t \in Dates, b \in BBoxes :
        LET c == load_anomaly(server, t, b)
        IN  /\ op = "none"
            /\ op' = "load_anomaly"
            /\ date' = t
            /\ bbox' = b
            /\ result' = c.res
            /\ attempts' = c.attempts
            /\ open_handles' = c.open
            /\ UNCHANGED server

\* The script is run again from the top on the next interaction; nothing of
\* the previous request is kept.
Rerun ==
    /\ op # "none"
    /\ op' = "none"
    /\ date' = 1
    /\ bbox' = NoBBox
    /\ result' = NoResult
    /\ attempts' = <<>>
    /\ open_handles' = {}
    /\ UNCHANGED server

Next ==
    \/ CallOpenDs
    \/ CallStandardize
    \/ CallListAvailableTimes
    \/ CallLoadAnomaly
    \/ Rerun

Spec == Init /\ [][Next]_vars

\* ---------------------------------------------------------------------
\* Properties
\* ---------------------------------------------------------------------
NcUrl == ERDDAP_URL \o <<".nc">>

\* The dataset of the current server state has the variable and the time
\* coordinate _standardize_anom_field looks up.
Standardizable == "anom" \in server.ds.vars /\ DsHasTime(server.ds)

\* A call on the dataset got as far as _standardize_anom_field.
ReachedStandardize ==
    \/ op = "_standardize_anom_field"
    \/ op = "load_anomaly" /\ (ERDDAP_URL \in server.up \/ NcUrl \in server.up)

\* Positions of the labels of v that lie in [lo, hi], in axis order.
InRange(v, lo, hi) == SelectSeq([k \in 1..Len(v) |-> k], LAMBDA k : lo <= v[k] /\ v[k] <= hi)

\* The axis ax restricted to the positions ix.
Restrict(ax, ix) ==
    [ax EXCEPT !.vals = [i \in 1..Len(ix) |-> ax.vals[ix[i]]],
               !.pos  = [i \in 1..Len(ix) |-> ax.pos[ix[i]]]]

\* C1: with a target time before the first time of the dataset the field
\* returned is the one for the first time exactly, with a target after the
\* last time it is the one for the last time, and an out-of-range target
\* raises nothing.
C1_OutOfRangeTargetIsClamped ==
    (op = "_standardize_anom_field" /\ Standardizable) =>
        LET times == DsTimes(server.ds)
            t0    == SeqMin(times)
            t1    == SeqMax(times)
        IN  /\ (date < t0 \/ date > t1) => result.kind = "ok"
            /\ date < t0 =>
                /\ result = _standardize_anom_field(server.ds, t0)
                /\ \E c \in result.field.scalars : c.name = "time" /\ c.val = t0
            /\ date > t1 =>
                /\ result = _standardize_anom_field(server.ds, t1)
                /\ \E c \in result.field.scalars : c.name = "time" /\ c.val = t1

C1_Witness ==
    /\ op = "_standardize_anom_field"
    /\ Standardizable
    /\ Len(DsTimes(server.ds)) >= 2
    /\ date < SeqMin(DsTimes(server.ds))
    /\ result.kind = "ok"

\* C2: a bounding box with lon_min > lon_max yields the grid longitudes in
\* [lon_min, 180] followed by those in [-180, lon_max], in that order and
\* not re-sorted; the count is the sum of the two segments.
C2_AntimeridianSplitOrder ==
    (op = "load_anomaly" /\ bbox.present /\ bbox.lon_min > bbox.lon_max
        /\ result.kind = "ok") =>
        LET grid == AxisOf(_standardize_anom_field(server.ds, date).field, "lon")
            east == Restrict(grid, InRange(grid.vals, bbox.lon_min, 180))
            west == Restrict(grid, InRange(grid.vals, -180, bbox.lon_max))
            got  == AxisOf(result.field, "lon")
        IN  /\ got.vals = east.vals \o west.vals
            /\ got.pos = east.pos \o west.pos
            /\ Len(got.vals) = Len(east.vals) + Len(west.vals)
            /\ \A i \in 1..Len(got.vals) :
                   IF i <= Len(east.vals)
                   THEN bbox.lon_min <= got.vals[i] /\ got.vals[i] <= 180
                   ELSE -180 <= got.vals[i] /\ got.vals[i] <= bbox.lon_max

C2_Witness ==
    /\ op = "load_anomaly"
    /\ bbox.present
    /\ bbox.lon_min > bbox.lon_max
    /\ result.kind = "ok"
    /\ LET got == AxisOf(result.field, "lon").vals
       IN  /\ Len(got) = 2
           /\ got[1] >= bbox.lon_min
           /\ got[2] <= bbox.lon_max

\* C3: on ascending and on descending latitude axes alike, the latitude
\* selection returns exactly the grid rows whose latitude lies in
\* [min(lat_min, lat_max), max(lat_min, lat_max)].
C3_LatitudeRangeEitherGridOrder ==
    (op = "load_anomaly" /\ bbox.present /\ result.kind = "ok") =>
        LET grid == AxisOf(_standardize_anom_field(server.ds, date).field, "lat")
            lo   == IF bbox.lat_min <= bbox.lat_max THEN bbox.lat_min ELSE bbox.lat_max
            hi   == IF bbox.lat_min <= bbox.lat_max THEN bbox.lat_max ELSE bbox.lat_min
        IN  AxisOf(result.field, "lat") = Restrict(grid, InRange(grid.vals, lo, hi))

\* C4: _open_ds tries the base URL first and the URL with ".nc" appended
\* once only if that fails, never more than these two attempts; it raises
\* iff both fail, and after a failed base attempt it returns what opening
\* the ".nc" URL directly returns.
C4_OpenFallback ==
    (op = "_open_ds") =>
        /\ Len(attempts) \in {1, 2}
        /\ attempts[1] = ERDDAP_URL
        /\ Len(attempts) = 2 <=> ERDDAP_URL \notin server.up
        /\ Len(attempts) = 2 => attempts[2] = NcUrl
        /\ result.kind = "error" <=> (ERDDAP_URL \notin server.up /\ NcUrl \notin server.up)
        /\ (ERDDAP_URL \notin server.up /\ NcUrl \in server.up) =>
               result = open_dataset(server, NcUrl)

C4_Witness ==
    /\ op = "_open_ds"
    /\ attempts = <<ERDDAP_URL, NcUrl>>
    /\ result.kind = "ok"
    /\ result.url = NcUrl

\* C5: every handle list_available_times or load_anomaly opens is closed by
\* the same call before it finishes, on every path.
C5_HandlesClosedOnEveryPath ==
    (op \in {"list_available_times", "load_anomaly"}) => open_handles = {}

\* C6: for either coordinate naming and any of the depth conventions the
\* standardized field has exactly the dimensions lat and lon.
C6_StandardizedFieldIsLatLon ==
    (op = "_standardize_anom_field" /\ result.kind = "ok") =>
        DimNames(result.field) = <<"lat", "lon">>

\* C7: every field load_anomaly returns has its latitudes in [-90, 90] and
\* its longitudes in [-180, 180], whatever the convention of the source.
C7_CoordinatesNormalized ==
    (op = "load_anomaly" /\ result.kind = "ok") =>
        \A k \in 1..Len(result.field.axes) :
            LET ax == result.field.axes[k]
            IN  /\ ax.name = "lat" => \A x \in Range(ax.vals) : -90 <= x /\ x <= 90
                /\ ax.name = "lon" => \A x \in Range(ax.vals) : -180 <= x /\ x <= 180

\* C8: a bounding box that contains no grid point makes load_anomaly return
\* an empty field, not fail; without a bounding box the standardized field
\* is returned unchanged.
C8_EmptySelectionIsNotAnError ==
    (op = "load_anomaly" /\ ReachedStandardize /\ Standardizable) =>
        LET src  == server.ds.axes
            lat  == src[Len(src) - 1].vals
            lon  == src[Len(src)].vals
            lo   == IF bbox.lat_min <= bbox.lat_max THEN bbox.lat_min ELSE bbox.lat_max
            hi   == IF bbox.lat_min <= bbox.lat_max THEN bbox.lat_max ELSE bbox.lat_min
            rows == InRange(lat, lo, hi)
            cols == IF bbox.lon_min <= bbox.lon_max
                    THEN InRange(lon, bbox.lon_min, bbox.lon_max)
                    ELSE InRange(lon, bbox.lon_min, 180) \o InRange(lon, -180, bbox.lon_max)
        IN  /\ ~bbox.present => result = _standardize_anom_field(server.ds, date)
            /\ (bbox.present /\ (rows = <<>> \/ cols = <<>>)) =>
                   /\ result.kind = "ok"
                   /\ \E k \in 1..Len(result.field.axes) : result.field.axes[k].vals = <<>>

\* C9: a dataset without the variable "anom" or without the time coordinate
\* makes _standardize_anom_field raise a lookup error, and load_anomaly
\* passes it on: no field is returned.
C9_LookupErrorPropagates ==
    (ReachedStandardize /\ ~Standardizable) =>
        /\ result.kind = "error"
        /\ result.err = "KeyError"
        /\ result.field = NoField

C9_Witness ==
    /\ op = "load_anomaly"
    /\ attempts # <<>>
    /\ server.up # {}
    /\ "anom" \notin server.ds.vars
    /\ result.kind = "error"

\* C10: exchanging lat_min and lat_max, the longitude bounds being equal,
\* selects the same latitude rows.
C10_LatitudeBoundsSymmetric ==
    (op = "load_anomaly" /\ bbox.present) =>
        LET sw == load_anomaly(server, date,
                               BBox(bbox.lat_max, bbox.lat_min, bbox.lon_min, bbox.lon_max)).res
        IN  /\ result.kind = sw.kind
            /\ result.kind = "ok" =>
                   AxisOf(result.field, "lat") = AxisOf(sw.field, "lat")

C10_Witness ==
    /\ op = "load_anomaly"
    /\ bbox.present
    /\ bbox.lat_min > bbox.lat_max
    /\ result.kind = "ok"
    /\ AxisOf(result.field, "lat").vals # <<>>

====
